---- MODULE Spec2Model ----
(***************************************************************************)
(* Model of crossformer/data/utils/data_utils.py:                          *)
(*   allocate_threads, binarize_gripper_actions, rel_open_or_closed,       *)
(*   rel2abs_gripper_actions and get_dataset_statistics.                   *)
(***************************************************************************)
EXTENDS Integers, Sequences, FiniteSets, TLC

VARIABLES
    \* allocate_threads
    a_weights,      \* the weights argument, in tenths (0.3 is 3)
    a_n,            \* the n argument
    a_result,       \* what the call produced
    a_pc,           \* "idle" | "start" | "done"
    \* the gripper-action transforms
    g_fn,           \* the function called
    g_actions,      \* its actions argument, in thousandths (0.95 is 950)
    g_out,          \* what it returned, in thousandths
    g_pc,           \* "idle" | "start" | "done"
    \* get_dataset_statistics and its environment
    s_dataset,      \* the dataset the caller passes: [cardinality, trajs]
    s_files,        \* the file system: path -> <<text>>, or <<>> when absent
    s_save,         \* what a write under save_dir does: "writable" | "denied" | "failing"
    s_local,        \* the local cache directory: "writable" | "denied" | "missing"
    s_call,         \* the arguments of the last call
    s_ret,          \* what the last call returned or raised
    s_trace,        \* what the last call did: exists(path), cardinality(), iteration, writes
    s_before,       \* history: the file system when the last call started
    s_recompute,    \* history: the last force_recompute call that returned, <<>> if none
    s_uniform,      \* history: the (hash_dependencies, save_dir) all calls so far share
    s_pc            \* "idle" | "ready" | "returned"

a_vars == <<a_weights, a_n, a_result, a_pc>>
g_vars == <<g_fn, g_actions, g_out, g_pc>>
s_vars == <<s_dataset, s_files, s_save, s_local, s_call, s_ret, s_trace, s_before,
            s_recompute, s_uniform, s_pc>>
vars == <<a_vars, g_vars, s_vars>>

(***************************************************************************)
(* float64 arithmetic.  A finite non-negative double is held exactly as a  *)
(* natural number of units of 2^-75, written in limbs of 15 bits, least    *)
(* significant limb first; every operation computes the exact result and   *)
(* rounds it to 53 significant bits, ties to even, as IEEE 754 does.       *)
(***************************************************************************)
MantissaBits == 53
Base == 2^15
LimbBits == CHOOSE k \in 1..30 : 2^k = Base
One == <<0, 0, 0, 0, 0, 1, 0, 0>>
Width == Len(One)
UnitLimb == CHOOSE i \in 1..Width : One[i] = 1
FracBits == LimbBits * (UnitLimb - 1)
\* not-a-number: the result of 0/0
NaN == <<-1>>

\* the function f on 1..n as an explicit tuple: evaluates every element once
Tuple(f, n) == SubSeq(f, 1, n)
Tup(f) == Tuple(f, Width)
Limb(a, i) == IF i >= 1 /\ i <= Len(a) THEN a[i] ELSE 0
Zero == Tup([i \in 1..Width |-> 0])
IsZero(a) == \A i \in 1..Width : a[i] = 0
\* the double of a small integer k
Small(k) == Tup([i \in 1..Width |-> IF i = UnitLimb THEN k ELSE 0])

BigAdd(a, b) ==
    LET c[i \in 0..Width] == IF i = 0 THEN 0 ELSE (a[i] + b[i] + c[i-1]) \div Base
    IN  Tup([i \in 1..Width |-> (a[i] + b[i] + c[i-1]) % Base])

\* a - b, for a >= b
BigSub(a, b) ==
    LET br[i \in 0..Width] == IF i = 0 THEN 0
                              ELSE IF a[i] - b[i] - br[i-1] < 0 THEN 1 ELSE 0
    IN  Tup([i \in 1..Width |-> (a[i] - b[i] - br[i-1] + Base) % Base])

BigMulSmall(a, k) ==
    LET c[i \in 0..Width] == IF i = 0 THEN 0 ELSE (a[i] * k + c[i-1]) \div Base
    IN  Tup([i \in 1..Width |-> (a[i] * k + c[i-1]) % Base])

BigLess(a, b) ==
    LET d == {i \in 1..Width : a[i] # b[i]}
    IN  d # {} /\ LET m == CHOOSE i \in d : \A j \in d : j <= i IN a[m] < b[m]

ShiftLeft(a, k) ==
    LET q == k \div LimbBits
        r == k % LimbBits
    IN  Tup([i \in 1..Width |-> ((Limb(a, i - q) * 2^r) % Base)
                            + (Limb(a, i - q - 1) \div 2^(LimbBits - r))])

ShiftRight(a, k) ==
    LET q == k \div LimbBits
        r == k % LimbBits
    IN  Tup([i \in 1..Width |-> (Limb(a, i + q) \div 2^r)
                            + ((Limb(a, i + q + 1) % 2^r) * 2^(LimbBits - r))])

\* position of the highest set bit of a # 0
Msb(a) ==
    LET m == CHOOSE i \in 1..Width : a[i] # 0 /\ \A j \in (i+1)..Width : a[j] = 0
        b == CHOOSE j \in 0..(LimbBits - 1) : 2^j <= a[m] /\ a[m] < 2^(j+1)
    IN  LimbBits * (m - 1) + b

\* 2^k units
Pow2(k) == Tup([i \in 1..Width |-> IF i = k \div LimbBits + 1 THEN 2^(k % LimbBits) ELSE 0])

BitAt(a, k) == (Limb(a, k \div LimbBits + 1) \div 2^(k % LimbBits)) % 2

\* round the exact value a (plus a nonzero remainder below its last unit when
\* sticky) to MantissaBits significant bits, ties to even
Round(a, sticky) ==
    IF IsZero(a) THEN a
    ELSE LET drop == Msb(a) - (MantissaBits - 1) IN
         IF drop <= 0 THEN a
         ELSE LET kept == ShiftLeft(ShiftRight(a, drop), drop)
                  half == BitAt(a, drop - 1) = 1
                  rest == sticky \/ ShiftLeft(ShiftRight(a, drop - 1), drop - 1) # a
                  odd  == BitAt(a, drop) = 1
              IN  IF half /\ (rest \/ odd)
                  THEN BigAdd(kept, Pow2(drop))
                  ELSE kept

\* k more quotient bits of r / b (r < b): <<quotient so far, remainder>>
RECURSIVE DivBits(_, _, _, _)
DivBits(r, b, q, k) ==
    IF k = 0 THEN <<q, r>>
    ELSE LET r2 == ShiftLeft(r, 1)
         IN  IF BigLess(r2, b) THEN DivBits(r2, b, 2 * q, k - 1)
             ELSE DivBits(BigSub(r2, b), b, 2 * q + 1, k - 1)

\* the double nearest a / b, for finite a, b
FDiv(a, b) ==
    IF a = NaN \/ b = NaN THEN NaN
    ELSE IF IsZero(b) THEN NaN     \* 0/0; x/0 for x > 0 (inf) does not arise: see Normalize
    ELSE IF IsZero(a) THEN Zero
    ELSE LET pa == Msb(a)
             pb == Msb(b)
             top == IF pa > pb THEN pa ELSE pb
             a1 == ShiftLeft(a, top - pa)
             b1 == ShiftLeft(b, top - pb)
             q0 == IF BigLess(a1, b1) THEN 0 ELSE 1
             r0 == IF q0 = 1 THEN BigSub(a1, b1) ELSE a1
             d1 == DivBits(r0, b1, 0, LimbBits)
             d2 == DivBits(d1[2], b1, 0, LimbBits)
             d3 == DivBits(d2[2], b1, 0, LimbBits)
             d4 == DivBits(d3[2], b1, 0, LimbBits)
             \* a1/b1 = quot * 2^(-4*LimbBits) + remainder
             quot == Tup([i \in 1..Width |->
                        CASE i = 1 -> d4[1] [] i = 2 -> d3[1] [] i = 3 -> d2[1]
                          [] i = 4 -> d1[1] [] i = 5 -> q0 [] OTHER -> 0])
             shift == FracBits - 4 * LimbBits + pa - pb
         IN  Round(ShiftLeft(quot, shift), ~IsZero(d4[2]))

FMulInt(a, k) == IF a = NaN THEN NaN ELSE Round(BigMulSmall(a, k), FALSE)
FAdd(a, b) == IF a = NaN \/ b = NaN THEN NaN ELSE Round(BigAdd(a, b), FALSE)
FLess(a, b) == a # NaN /\ b # NaN /\ BigLess(a, b)
FPositive(a) == a # NaN /\ ~IsZero(a)


(***************************************************************************)
(* allocate_threads (lines 380-410)                                        *)
(***************************************************************************)
\* Optional[int]: None is the empty tuple, the integer k is <<k>>
None == <<>>
Some(k) == <<k>>
AUTOTUNE == -1

\* the double a Python float literal k/10 denotes
\* the doubles of the literals 0.0, 0.1, ..., 1.0
TenthsTable == Tuple([k \in 1..11 |-> FDiv(Small(k - 1), Small(10))], 11)
FromTenths(k) == TenthsTable[k + 1]

\* np.sum over a float64 array: left to right from 0.0
RECURSIVE NpSum(_, _)
NpSum(w, k) == IF k = 0 THEN Zero ELSE FAdd(NpSum(w, k - 1), w[k])

\* weights / weights.sum()
Normalize(w) ==
    LET s == NpSum(w, Len(w))
    IN  Tuple([i \in 1..Len(w) |-> FDiv(w[i], s)], Len(w))

RECURSIVE SumInts(_, _)
SumInts(f, k) == IF k = 0 THEN 0 ELSE SumInts(f, k - 1) + f[k]

\* mask = (weights * n < 1) & (weights > 0)
Mask(w, n) ==
    Tuple([i \in 1..Len(w) |-> IF FLess(FMulInt(w[i], n), One) /\ FPositive(w[i])
                                THEN 1 ELSE 0], Len(w))

\* the while loop of lines 394-403: <<weights, n, allocation>> when it breaks
RECURSIVE MinimumLoop(_, _, _)
MinimumLoop(w, n, allocation) ==
    LET mask == Mask(w, n)
    IN  IF \A i \in 1..Len(w) : mask[i] = 0 THEN <<w, n, allocation>>
        ELSE MinimumLoop(
                Normalize(Tuple([i \in 1..Len(w) |-> IF mask[i] = 1 THEN Zero ELSE w[i]],
                                Len(w))),
                n - SumInts(mask, Len(w)),
                Tuple([i \in 1..Len(w) |-> allocation[i] + mask[i]], Len(w)))

\* np.modf: the fractional and the integral part of a finite double
Fractional(x) == Tup([i \in 1..Width |-> IF i < UnitLimb THEN x[i] ELSE 0])
Integral(x) == x[UnitLimb] + Base * x[UnitLimb + 1]

\* np.argsort(f): every ascending order of the indices; the default sort kind
\* is not stable, so equal keys may come out in any order
RECURSIVE ArgsortOrders(_, _)
ArgsortOrders(f, S) ==
    IF S = {} THEN {<<>>}
    ELSE UNION {{<<i>> \o o : o \in ArgsortOrders(f, S \ {i})} :
                i \in {j \in S : \A k \in S : ~BigLess(f[k], f[j])}}

\* variant: the order not reversed
NotReversed(s) == s

\* s[::-1]
Reversed(s) == Tuple([i \in 1..Len(s) |-> s[Len(s) + 1 - i]], Len(s))

\* s[:k] of Python
Take(s, k) ==
    IF k >= 0 THEN SubSeq(s, 1, IF k < Len(s) THEN k ELSE Len(s))
    ELSE SubSeq(s, 1, IF Len(s) + k > 0 THEN Len(s) + k ELSE 0)

InSeq(x, s) == \E i \in 1..Len(s) : s[i] = x

\* lines 404-410, after the loop left <<w, n, allocation>>
Remainder(w, n, allocation) ==
    IF \E i \in 1..Len(w) : w[i] = NaN
    THEN \* modf(nan) is nan, n -= nan is nan, int(nan) raises
         {[status |-> "ValueError"]}
    ELSE LET prod == Tuple([i \in 1..Len(w) |-> FMulInt(w[i], n)], Len(w))
             fractional == Tuple([i \in 1..Len(w) |-> Fractional(prod[i])], Len(w))
             integral == Tuple([i \in 1..Len(w) |-> Integral(prod[i])], Len(w))
             floors == Tuple([i \in 1..Len(w) |-> allocation[i] + integral[i]], Len(w))
             left == n - SumInts(integral, Len(w))
         IN  {[status |-> "ok",
               floors |-> floors,
               fractional |-> fractional,
               left |-> left,
               allocation |-> LET given == Take(Reversed(order), left)
                              IN  Tuple([i \in 1..Len(w) |-> floors[i]
                                            + (IF InSeq(i, given) THEN 1 ELSE 0)], Len(w))]
              : order \in ArgsortOrders(fractional, 1..Len(w))}

\* allocate_threads(n, weights): the set of results the call can produce
allocate_threads(optn, weights) ==
    LET n == optn[1] IN
    IF optn = None THEN {[status |-> "ok", allocation |-> [i \in 1..Len(weights) |-> AUTOTUNE]]}
    ELSE IF \E i \in 1..Len(weights) : weights[i] < 0 THEN {[status |-> "AssertionError"]}
    ELSE IF Len(weights) > n THEN {[status |-> "AssertionError"]}
    ELSE LET w0 == Tuple([i \in 1..Len(weights) |-> FromTenths(weights[i])], Len(weights))
             l == MinimumLoop(Normalize(w0), n,
                              Tuple([i \in 1..Len(weights) |-> 0], Len(weights)))
         IN  Remainder(l[1], l[2], l[3])

(***************************************************************************)
(* binarize_gripper_actions (lines 259-296); values in thousandths         *)
(***************************************************************************)
open_boundary == 950
close_boundary == 50

open_mask(actions) == [i \in 1..Len(actions) |-> actions[i] > open_boundary]
closed_mask(actions) == [i \in 1..Len(actions) |-> actions[i] < close_boundary]
in_between_mask(actions) ==
    [i \in 1..Len(actions) |-> ~(open_mask(actions)[i] \/ closed_mask(actions)[i])]

\* tf.cast of a boolean to the float dtype: 1.0 or 0.0
CastFloat(b) == IF b THEN 1000 ELSE 0

\* variant: the closed mask cast instead of the open mask
is_open_float_closed(actions) == [i \in 1..Len(actions) |-> CastFloat(closed_mask(actions)[i])]

is_open_float(actions) == [i \in 1..Len(actions) |-> CastFloat(open_mask(actions)[i])]

binarize_scan_fn(actions, carry, i) ==
    IF in_between_mask(actions)[i] THEN carry ELSE is_open_float(actions)[i]

\* variant: the initializer converted to a crisp value first
binarize_initializer_crisp(actions) == CastFloat(actions[Len(actions)] > open_boundary)

\* the initializer of the scan of line 293: actions[-1]
binarize_initializer(actions) == actions[Len(actions)]

\* tf.scan(scan_fn, range(n), initializer, reverse=True): element i is
\* scan_fn(element i+1, i), the last one scan_fn(initializer, n)
binarize_gripper_actions(actions) ==
    LET n == Len(actions)
        new_actions[i \in 1..n] ==
            binarize_scan_fn(actions,
                             IF i = n THEN binarize_initializer(actions)
                             ELSE new_actions[i + 1], i)
    IN  Tuple(new_actions, n)

(***************************************************************************)
(* rel_open_or_closed (lines 299-323)                                      *)
(***************************************************************************)
\* tf.where(opening_mask, -1, tf.where(closing_mask, -1, 0)) with
\* opening_mask = actions > 1e-3, closing_mask = actions < -1e-3
old_state_mask(actions) ==
    [i \in 1..Len(actions) |->
        IF actions[i] > 1 THEN -1 ELSE IF actions[i] < -1 THEN -1 ELSE 0]

\* (old_state_mask[i] + 1) / 2 as a float, in thousandths
rel_open_scan_fn(actions, carry, i) ==
    IF old_state_mask(actions)[i] = 0 THEN carry
    ELSE ((old_state_mask(actions)[i] + 1) * 1000) \div 2

\* the reverse scan from tf.zeros_like(actions[-1]), then its element [0]
rel_open_or_closed(actions) ==
    LET n == Len(actions)
        scanned[i \in 1..n] ==
            rel_open_scan_fn(actions, IF i = n THEN 0 ELSE scanned[i + 1], i)
    IN  Tuple(scanned, n)[1]

(***************************************************************************)
(* rel2abs_gripper_actions (lines 326-352)                                 *)
(***************************************************************************)
\* opening_mask = actions < -0.1, closing_mask = actions > 0.1;
\* -1 for closing, 1 for opening, 0 for no change
thresholded_actions(actions) ==
    [i \in 1..Len(actions) |->
        IF actions[i] < -100 THEN 1 ELSE IF actions[i] > 100 THEN -1 ELSE 0]

\* tf.argmax of a boolean vector: the first TRUE, index 1 when there is none
ArgmaxBool(b, n) ==
    IF \E i \in 1..n : b[i]
    THEN CHOOSE i \in 1..n : b[i] /\ \A j \in 1..(i - 1) : ~b[j]
    ELSE 1

\* variant: the first nonzero action taken as the start, not its negation
rel2abs_start_same(actions) ==
    LET t == thresholded_actions(actions)
        start == t[ArgmaxBool([i \in 1..Len(actions) |-> t[i] # 0], Len(actions))]
    IN  IF start = 0 THEN 1 ELSE start

rel2abs_start(actions) ==
    LET t == thresholded_actions(actions)
        start == -1 * t[ArgmaxBool([i \in 1..Len(actions) |-> t[i] # 0], Len(actions))]
    IN  IF start = 0 THEN 1 ELSE start

rel2abs_scan_fn(actions, carry, i) ==
    IF thresholded_actions(actions)[i] = 0 THEN carry ELSE thresholded_actions(actions)[i]

\* tf.scan(scan_fn, range(n), start): element i is scan_fn(element i-1, i);
\* then tf.cast(new_actions, tf.float32) / 2 + 0.5, in thousandths
rel2abs_gripper_actions(actions) ==
    LET n == Len(actions)
        scanned[i \in 1..n] ==
            rel2abs_scan_fn(actions, IF i = 1 THEN rel2abs_start(actions) ELSE scanned[i - 1], i)
        new_actions == Tuple(scanned, n)
    IN  Tuple([i \in 1..n |-> new_actions[i] * 500 + 500], n)

(***************************************************************************)
(* get_dataset_statistics (lines 85-196)                                   *)
(***************************************************************************)
INFINITE_CARDINALITY == -1
UNKNOWN_CARDINALITY == -2

\* hashlib.sha256("".join(hash_dependencies)).hexdigest(): the digest is taken
\* to be the joined string itself (no two joined strings collide)
RECURSIVE JoinStrings(_, _)
JoinStrings(parts, k) == IF k = 0 THEN "" ELSE JoinStrings(parts, k - 1) \o parts[k]
unique_hash(hash_dependencies) == JoinStrings(hash_dependencies, Len(hash_dependencies))

LocalCacheDir == "~/.cache/crossformer"
FileName(hash) == "dataset_statistics_" \o hash \o ".json"
local_path(hash_dependencies) == <<LocalCacheDir, FileName(unique_hash(hash_dependencies))>>
\* lines 111-114; save_dir is an Optional[str]
cache_path(save_dir, hash_dependencies) ==
    IF save_dir # None THEN <<save_dir[1], FileName(unique_hash(hash_dependencies))>>
    ELSE local_path(hash_dependencies)

Absent == <<>>
Exists(files, p) == files[p] # Absent
\* json.dump / json.load of a metadata dictionary
JsonDump(metadata) == <<[json |-> metadata]>>
JsonLoad(text) == text[1].json

\* rational numbers in lowest terms
RECURSIVE Gcd(_, _)
Gcd(a, b) == IF b = 0 THEN a ELSE Gcd(b, a % b)
Abs(x) == IF x < 0 THEN -x ELSE x
Frac(n, d) == LET g == Gcd(Abs(n), d) IN [num |-> n \div g, den |-> d \div g]

RECURSIVE SumSeq(_, _)
SumSeq(x, k) == IF k = 0 THEN 0 ELSE SumSeq(x, k - 1) + x[k]
RECURSIVE SumSquares(_, _)
SumSquares(x, k) == IF k = 0 THEN 0 ELSE SumSquares(x, k - 1) + x[k] * x[k]

\* np.quantile(x, q/100, 0), linear interpolation between the order statistics
Quantile(x, q) ==
    LET sorted == SortSeq(x, LAMBDA a, b : a < b)
        pos == q * (Len(x) - 1)
        lo == pos \div 100 + 1
        hi == IF lo < Len(x) THEN lo + 1 ELSE lo
    IN  Frac(100 * sorted[lo] + (pos % 100) * (sorted[hi] - sorted[lo]), 100)

\* lines 162-167: the statistics of one field over its samples x (one column);
\* std is held as the population variance it is the square root of
FieldStatistics(x) ==
    LET n == Len(x)
    IN  [mean |-> Frac(SumSeq(x, n), n),
         std  |-> [sqrt |-> Frac(n * SumSquares(x, n) - SumSeq(x, n) * SumSeq(x, n), n * n)],
         max  |-> CHOOSE v \in {x[i] : i \in 1..n} : \A i \in 1..n : x[i] <= v,
         min  |-> CHOOSE v \in {x[i] : i \in 1..n} : \A i \in 1..n : v <= x[i],
         p99  |-> Quantile(x, 99),
         p01  |-> Quantile(x, 1)]

\* the traj_map of lines 129-134
TrajMap(traj, proprio_keys) ==
    [k \in {"action"} \cup {proprio_keys[i] : i \in 1..Len(proprio_keys)} |->
        IF k = "action" THEN traj.action ELSE traj.observation[k]]

\* lines 153-156 for one key over the first k trajectories: the list is
\* started with the first trajectory and then every trajectory is appended
RECURSIVE ProprioList(_, _, _)
ProprioList(trajs, key, k) ==
    IF k = 0 THEN <<>>
    ELSE LET before == ProprioList(trajs, key, k - 1)
         IN  Append(IF before = <<>> THEN <<trajs[k][key]>> ELSE before, trajs[k][key])

\* line 152 over the first k trajectories
RECURSIVE ActionList(_, _)
ActionList(trajs, k) ==
    IF k = 0 THEN <<>> ELSE Append(ActionList(trajs, k - 1), trajs[k]["action"])

\* np.concatenate of a list of arrays
RECURSIVE Concatenate(_, _)
Concatenate(arrays, k) == IF k = 0 THEN <<>> ELSE Concatenate(arrays, k - 1) \o arrays[k]

\* lines 157: the sum of traj["action"].shape[0]
RECURSIVE CountTransitions(_, _)
CountTransitions(trajs, k) ==
    IF k = 0 THEN 0 ELSE CountTransitions(trajs, k - 1) + Len(trajs[k]["action"])

KeySet(proprio_keys) == {proprio_keys[i] : i \in 1..Len(proprio_keys)}

\* the arrays of lines 159 and 174: field -> every sample the statistics aggregate
Samples(dataset, proprio_keys) ==
    LET trajs == [t \in 1..Len(dataset.trajs) |-> TrajMap(dataset.trajs[t], proprio_keys)]
        n == Len(dataset.trajs)
    IN  [k \in {"action"} \cup KeySet(proprio_keys) |->
            IF k = "action" THEN Concatenate(ActionList(trajs, n), n)
            ELSE LET l == ProprioList(trajs, k, n) IN Concatenate(l, Len(l))]

\* lines 160-182
Metadata(dataset, proprio_keys) ==
    LET samples == Samples(dataset, proprio_keys)
        trajs == [t \in 1..Len(dataset.trajs) |-> TrajMap(dataset.trajs[t], proprio_keys)]
    IN  [k \in {"action", "num_transitions", "num_trajectories"} \cup KeySet(proprio_keys) |->
            CASE k = "num_transitions" -> CountTransitions(trajs, Len(trajs))
              [] k = "num_trajectories" -> Len(trajs)
              [] OTHER -> FieldStatistics(samples[k])]

NoTrace == [cardinality_queried |-> FALSE, iterated |-> FALSE, samples |-> <<>>, writes |-> <<>>]

\* the outcome of tf.io.gfile.GFile(path, "w") with json.dump (lines 185-186)
GFileWrite(path) ==
    IF path[1] = LocalCacheDir
    THEN CASE s_local = "writable" -> "ok"
           [] s_local = "denied" -> "PermissionDeniedError"
           [] OTHER -> "NotFoundError"
    ELSE CASE s_save = "writable" -> "ok"
           [] s_save = "denied" -> "PermissionDeniedError"
           [] OTHER -> "UnavailableError"

\* the outcome of os.makedirs(..., exist_ok=True) and open(local_path, "w")
\* with json.dump (lines 192-194)
LocalWrite == IF s_local = "denied" THEN "PermissionError" ELSE "ok"

\* variant: the permission error swallowed, nothing written to the fallback
PersistWithoutFallback(path, local, metadata) ==
    LET first == GFileWrite(path)
    IN  [files  |-> IF first = "ok" THEN [s_files EXCEPT ![path] = JsonDump(metadata)]
                    ELSE s_files,
         local  |-> s_local,
         writes |-> <<<<path, first>>>>,
         status |-> IF first \in {"ok", "PermissionDeniedError"} THEN "ok" ELSE first]

\* lines 184-194: what persisting metadata does to the file system, the writes
\* attempted and how the statement ends
Persist(path, local, metadata) ==
    LET first == GFileWrite(path)
    IN  IF first = "ok"
        THEN [files  |-> [s_files EXCEPT ![path] = JsonDump(metadata)],
              local  |-> s_local,
              writes |-> <<<<path, "ok">>>>,
              status |-> "ok"]
        ELSE IF first = "PermissionDeniedError"
        THEN [files  |-> IF LocalWrite = "ok"
                         THEN [s_files EXCEPT ![local] = JsonDump(metadata)]
                         ELSE s_files,
              local  |-> IF LocalWrite = "ok" THEN "writable" ELSE s_local,
              writes |-> <<<<path, first>>, <<local, LocalWrite>>>>,
              status |-> LocalWrite]
        ELSE [files  |-> s_files,
              local  |-> s_local,
              writes |-> <<<<path, first>>>>,
              status |-> first]

\* variant: the caller's directory ignored, the local path always looked up
LookupLocalOnly(save_dir, hash_dependencies) == local_path(hash_dependencies)

\* the path line 117 looks up
LookupPath(save_dir, hash_dependencies) == cache_path(save_dir, hash_dependencies)

Returned(value) == [status |-> "ok", value |-> <<value>>]
Raised(error) == [status |-> error, value |-> <<>>]
NoCall == [proprio_keys |-> <<>>, hash_dependencies |-> <<>>, save_dir |-> None,
           force_recompute |-> FALSE]

Arguments(call) == <<call.hash_dependencies, call.save_dir>>
\* the arguments every call so far was made with: none yet, one pair, or
\* Mixed once two calls differed
Mixed == {<<<<>>, None>>, <<<<>>, Some("")>>}
Uniform(seen, call) ==
    IF seen = {} \/ seen = {Arguments(call)} THEN {Arguments(call)} ELSE Mixed

GetDatasetStatistics(proprio_keys, hash_dependencies, save_dir, force_recompute) ==
    LET path == cache_path(save_dir, hash_dependencies)
        lookup == LookupPath(save_dir, hash_dependencies)
        local == local_path(hash_dependencies)
        metadata == Metadata(s_dataset, proprio_keys)
        persisted == Persist(path, local, metadata)
        called == [proprio_keys |-> proprio_keys, hash_dependencies |-> hash_dependencies,
                   save_dir |-> save_dir, force_recompute |-> force_recompute]
    IN
    /\ s_pc \in {"ready", "returned"}
    /\ s_pc' = "returned"
    /\ s_call' = called
    /\ s_before' = s_files
    /\ s_uniform' = Uniform(s_uniform, called)
    /\ UNCHANGED <<s_dataset, s_save>>
    /\ IF Exists(s_files, lookup) /\ ~force_recompute
       THEN \* lines 117-121
            /\ s_ret' = Returned(JsonLoad(s_files[lookup]))
            /\ s_trace' = NoTrace
            /\ UNCHANGED <<s_files, s_local, s_recompute>>
       ELSE IF Exists(s_files, local) /\ ~force_recompute
       THEN \* lines 123-127
            /\ s_ret' = Returned(JsonLoad(s_files[local]))
            /\ s_trace' = NoTrace
            /\ UNCHANGED <<s_files, s_local, s_recompute>>
       ELSE IF s_dataset.cardinality = INFINITE_CARDINALITY
       THEN \* lines 136-138
            /\ s_ret' = Raised("ValueError")
            /\ s_trace' = [NoTrace EXCEPT !.cardinality_queried = TRUE]
            /\ UNCHANGED <<s_files, s_local, s_recompute>>
       ELSE IF Len(s_dataset.trajs) = 0
       THEN \* line 159: np.concatenate of an empty list
            /\ s_ret' = Raised("ValueError")
            /\ s_trace' = [NoTrace EXCEPT !.cardinality_queried = TRUE, !.iterated = TRUE]
            /\ UNCHANGED <<s_files, s_local, s_recompute>>
       ELSE \* lines 144-196
            /\ s_files' = persisted.files
            /\ s_local' = persisted.local
            /\ s_ret' = IF persisted.status = "ok" THEN Returned(metadata)
                        ELSE Raised(persisted.status)
            /\ s_trace' = [cardinality_queried |-> TRUE, iterated |-> TRUE,
                           samples |-> Samples(s_dataset, proprio_keys),
                           writes |-> persisted.writes]
            /\ s_recompute' = IF force_recompute /\ persisted.status = "ok"
                              THEN <<[call |-> called, metadata |-> metadata]>>
                              ELSE s_recompute
    /\ UNCHANGED <<a_vars, g_vars>>

(***************************************************************************)
(* Specification of allocate_threads: one call on bounded inputs           *)
(***************************************************************************)
MaxLen == 5
MaxN == 6
WeightTenths == {0, 3, 10}

RECURSIVE SeqsUpTo(_, _)
SeqsUpTo(S, k) ==
    IF k = 0 THEN {<<>>}
    ELSE LET shorter == SeqsUpTo(S, k - 1)
         IN  shorter \cup {Append(s, x) : s \in {t \in shorter : Len(t) = k - 1}, x \in S}

IdleAlloc ==
    /\ a_weights = <<>>
    /\ a_n = None
    /\ a_result = [status |-> "none"]
    /\ a_pc = "idle"

IdleGripper ==
    /\ g_fn = "none"
    /\ g_actions = <<>>
    /\ g_out = <<>>
    /\ g_pc = "idle"

IdleStats ==
    /\ s_dataset = [cardinality |-> 0, trajs |-> <<>>]
    /\ s_files = <<>>
    /\ s_save = "writable"
    /\ s_local = "writable"
    /\ s_call = NoCall
    /\ s_ret = Raised("none")
    /\ s_trace = NoTrace
    /\ s_before = <<>>
    /\ s_recompute = <<>>
    /\ s_uniform = {}
    /\ s_pc = "idle"

InitAlloc ==
    /\ IdleGripper
    /\ IdleStats
    /\ a_weights \in SeqsUpTo(WeightTenths, MaxLen) \ {<<>>}
    /\ a_n \in {Some(k) : k \in 1..MaxN} \cup {None}
    /\ a_result = [status |-> "none"]
    /\ a_pc = "start"

AllocateThreads ==
    /\ a_pc = "start"
    /\ \E r \in allocate_threads(a_n, a_weights) : a_result' = r
    /\ a_pc' = "done"
    /\ UNCHANGED <<a_weights, a_n, g_vars, s_vars>>

NextAlloc == AllocateThreads

SpecAlloc == InitAlloc /\ [][NextAlloc]_vars

(***************************************************************************)
(* Specification of the gripper transforms: one call on a bounded input    *)
(***************************************************************************)
MaxActions == 4
BinarizeValues == {0, 50, 500, 950, 1000}
RelOpenValues == {-1000, -1, 0, 1, 1000}
Rel2AbsValues == {-1000, -100, 0, 100, 1000}

InitGripper ==
    /\ IdleAlloc
    /\ IdleStats
    /\ g_fn \in {"binarize_gripper_actions", "rel_open_or_closed", "rel2abs_gripper_actions"}
    /\ g_actions \in SeqsUpTo(CASE g_fn = "binarize_gripper_actions" -> BinarizeValues
                                []  g_fn = "rel_open_or_closed" -> RelOpenValues
                                []  OTHER -> Rel2AbsValues, MaxActions) \ {<<>>}
    /\ g_out = <<>>
    /\ g_pc = "start"

BinarizeGripperActions ==
    /\ g_pc = "start" /\ g_fn = "binarize_gripper_actions"
    /\ g_out' = binarize_gripper_actions(g_actions)
    /\ g_pc' = "done"
    /\ UNCHANGED <<g_fn, g_actions, a_vars, s_vars>>

RelOpenOrClosed ==
    /\ g_pc = "start" /\ g_fn = "rel_open_or_closed"
    /\ g_out' = <<rel_open_or_closed(g_actions)>>
    /\ g_pc' = "done"
    /\ UNCHANGED <<g_fn, g_actions, a_vars, s_vars>>

Rel2AbsGripperActions ==
    /\ g_pc = "start" /\ g_fn = "rel2abs_gripper_actions"
    /\ g_out' = rel2abs_gripper_actions(g_actions)
    /\ g_pc' = "done"
    /\ UNCHANGED <<g_fn, g_actions, a_vars, s_vars>>

NextGripper == BinarizeGripperActions \/ RelOpenOrClosed \/ Rel2AbsGripperActions

SpecGripper == InitGripper /\ [][NextGripper]_vars

(***************************************************************************)
(* Specification of get_dataset_statistics: calls on a file system that    *)
(* starts without cache files, while the dataset and the permissions of   *)
(* the two directories change between the calls                            *)
(***************************************************************************)
SaveDir == "gs://bucket/data"
HashDependencies == {<<"bridge", "v1">>, <<"fractal">>}
ProprioKeys == <<"state">>

Trajectory(action, state) == [action |-> action, observation |-> [state |-> state]]
Datasets ==
    {[cardinality |-> 2, trajs |-> <<Trajectory(<<1>>, <<5>>), Trajectory(<<2, 4>>, <<7, 9>>)>>],
     [cardinality |-> UNKNOWN_CARDINALITY, trajs |-> <<Trajectory(<<3, 8>>, <<6, 6>>)>>],
     [cardinality |-> 0, trajs |-> <<>>],
     [cardinality |-> INFINITE_CARDINALITY, trajs |-> <<Trajectory(<<1>>, <<5>>)>>]}

Paths == {<<dir, FileName(unique_hash(h))>> : dir \in {SaveDir, LocalCacheDir},
                                               h \in HashDependencies}
InitStats ==
    /\ IdleAlloc
    /\ IdleGripper
    /\ s_dataset \in Datasets
    /\ s_files = [p \in Paths |-> Absent]
    /\ s_save \in {"writable", "denied", "failing"}
    /\ s_local \in {"writable", "denied", "missing"}
    /\ s_call = NoCall
    /\ s_ret = Raised("none")
    /\ s_trace = NoTrace
    /\ s_before = s_files
    /\ s_recompute = <<>>
    /\ s_uniform = {}
    /\ s_pc = "ready"

CallGetDatasetStatistics ==
    \E hash_dependencies \in HashDependencies, save_dir \in {None, Some(SaveDir)},
       force_recompute \in BOOLEAN :
        GetDatasetStatistics(ProprioKeys, hash_dependencies, save_dir, force_recompute)

\* between two calls nothing of the earlier call is left but the files
Forgotten ==
    /\ s_call' = NoCall
    /\ s_ret' = Raised("none")
    /\ s_trace' = NoTrace
    /\ s_before' = s_files

\* the environment: the caller's dataset is extended or replaced
DatasetChanges ==
    /\ s_pc \in {"ready", "returned"}
    /\ s_dataset' \in Datasets \ {s_dataset}
    /\ s_pc' = "ready"
    /\ Forgotten
    /\ UNCHANGED <<s_files, s_save, s_local, s_recompute, s_uniform, a_vars, g_vars>>

\* the environment: the permissions of save_dir change
SaveDirChanges ==
    /\ s_pc \in {"ready", "returned"}
    /\ s_save' \in {"writable", "denied", "failing"} \ {s_save}
    /\ s_pc' = "ready"
    /\ Forgotten
    /\ UNCHANGED <<s_dataset, s_files, s_local, s_recompute, s_uniform, a_vars, g_vars>>

\* the environment: the permissions of the local cache directory change
LocalDirChanges ==
    /\ s_pc \in {"ready", "returned"}
    /\ s_local \in {"writable", "denied"}
    /\ s_local' \in {"writable", "denied"} \ {s_local}
    /\ s_pc' = "ready"
    /\ Forgotten
    /\ UNCHANGED <<s_dataset, s_files, s_save, s_recompute, s_uniform, a_vars, g_vars>>

NextStats == CallGetDatasetStatistics \/ DatasetChanges \/ SaveDirChanges \/ LocalDirChanges

SpecStats == InitStats /\ [][NextStats]_vars

(***************************************************************************)
(* Properties of allocate_threads                                          *)
(***************************************************************************)
AllocReturned == a_pc = "done" /\ a_n # None /\ a_result.status = "ok"
FracGreater(i, j) == BigLess(a_result.fractional[j], a_result.fractional[i])
GotLeftover(i) == a_result.allocation[i] = a_result.floors[i] + 1

\* C1: for non-negative weights with a positive one and n >= len(weights) the
\* call returns an allocation that sums to n and gives every entry of nonzero
\* weight at least one thread
C1_SumAndMinimum ==
    (/\ a_pc = "done" /\ a_n # None
     /\ \A i \in 1..Len(a_weights) : a_weights[i] >= 0
     /\ \E i \in 1..Len(a_weights) : a_weights[i] > 0
     /\ a_n[1] >= Len(a_weights))
    => /\ a_result.status = "ok"
       /\ SumInts(a_result.allocation, Len(a_weights)) = a_n[1]
       /\ \A i \in 1..Len(a_weights) : a_weights[i] > 0 => a_result.allocation[i] >= 1

\* C9 as stated: the leftover threads go to the largest fractional remainders,
\* and among equal remainders to the lower index first
C9_LowerIndexFirst ==
    AllocReturned =>
        \A i \in 1..Len(a_weights) :
            GotLeftover(i) <=>
                Cardinality({j \in 1..Len(a_weights) :
                                FracGreater(j, i)
                                \/ (a_result.fractional[j] = a_result.fractional[i] /\ j < i)})
                    < a_result.left

\* C9 as amended: every entry gets its floor or one more, exactly `left`
\* entries get one more, and none of them has a smaller fractional remainder
\* than an entry that gets none
C9_LargestRemainders ==
    AllocReturned =>
        /\ \A i \in 1..Len(a_weights) :
              a_result.allocation[i] \in {a_result.floors[i], a_result.floors[i] + 1}
        /\ Cardinality({i \in 1..Len(a_weights) : GotLeftover(i)}) = a_result.left
        /\ \A i, j \in 1..Len(a_weights) :
              GotLeftover(i) /\ ~GotLeftover(j) => ~FracGreater(j, i)

\* weights=[1,1,1,1], n=6 returned [1,1,2,2]: of four equal remainders the two
\* higher indices got the leftover threads
C9_Witness ==
    /\ AllocReturned
    /\ a_weights = <<10, 10, 10, 10>> /\ a_n = Some(6)
    /\ a_result.allocation = <<1, 1, 2, 2>>

(***************************************************************************)
(* Properties of the gripper transforms                                    *)
(***************************************************************************)
BinarizeDone == g_pc = "done" /\ g_fn = "binarize_gripper_actions"
Ambiguous(x) == ~(x > open_boundary \/ x < close_boundary)
Crisp(x) == IF x > open_boundary THEN 1000 ELSE 0
TrailingAmbiguous(i) == \A j \in i..Len(g_actions) : Ambiguous(g_actions[j])

\* C3 as stated: every element of the output is exactly 0 or 1
C3_AllBinary ==
    BinarizeDone => \A i \in 1..Len(g_actions) : g_out[i] \in {0, 1000}

\* C3 as amended: the carry is seeded with the raw last element, so the
\* elements of a trailing run of ambiguous values are that raw last element
\* and every other element is exactly 0 or 1
C3_BinaryExceptTrailingRun ==
    BinarizeDone =>
        \A i \in 1..Len(g_actions) :
            IF TrailingAmbiguous(i) THEN g_out[i] = g_actions[Len(g_actions)]
            ELSE g_out[i] \in {0, 1000}

C3_Witness ==
    /\ BinarizeDone
    /\ Len(g_actions) >= 3
    /\ ~Ambiguous(g_actions[1])
    /\ TrailingAmbiguous(2)
    /\ g_out[2] \notin {0, 1000}

\* C10: a non-ambiguous element is emitted as its own crisp value, an
\* ambiguous one as the value emitted at the next index, hence as the crisp
\* value of the nearest later non-ambiguous element when there is one
C10_BackwardScan ==
    BinarizeDone =>
        \A i \in 1..Len(g_actions) :
            /\ ~Ambiguous(g_actions[i]) => g_out[i] = Crisp(g_actions[i])
            /\ Ambiguous(g_actions[i]) /\ i < Len(g_actions) => g_out[i] = g_out[i + 1]
            /\ \A j \in (i + 1)..Len(g_actions) :
                  (/\ \A k \in i..(j - 1) : Ambiguous(g_actions[k])
                   /\ ~Ambiguous(g_actions[j]))
                  => g_out[i] = Crisp(g_actions[j])

C10_Witness ==
    /\ BinarizeDone
    /\ Len(g_actions) >= 3
    /\ g_actions[1] < close_boundary
    /\ Ambiguous(g_actions[2])
    /\ g_actions[3] > open_boundary
    /\ g_out[1] = 0 /\ g_out[2] = 1000 /\ g_out[3] = 1000

Rel2AbsDone == g_pc = "done" /\ g_fn = "rel2abs_gripper_actions"
Closing(x) == x > 100
Opening(x) == x < -100
Events == {j \in 1..Len(g_actions) : Closing(g_actions[j]) \/ Opening(g_actions[j])}
MaxOf(S) == CHOOSE x \in S : \A y \in S : y <= x
MinOf(S) == CHOOSE x \in S : \A y \in S : x <= y

\* C4: the output at i is 0 after a closing and 1 after an opening action,
\* before the first such action the opposite of what that action produces,
\* and 1 everywhere when there is none
C4_Rel2Abs ==
    Rel2AbsDone =>
        \A i \in 1..Len(g_actions) :
            g_out[i] = IF {j \in Events : j <= i} # {}
                       THEN (IF Closing(g_actions[MaxOf({j \in Events : j <= i})])
                             THEN 0 ELSE 1000)
                       ELSE IF Events # {}
                       THEN (IF Closing(g_actions[MinOf(Events)]) THEN 1000 ELSE 0)
                       ELSE 1000

\* [0, 1, 0, -1] gives [1, 0, 0, 1]
C4_Witness ==
    /\ Rel2AbsDone
    /\ g_actions = <<0, 1000, 0, -1000>>
    /\ g_out = <<1000, 0, 0, 1000>>

RelOpenDone == g_pc = "done" /\ g_fn = "rel_open_or_closed"
Taken == {j \in 1..Len(g_actions) : g_actions[j] > 1 \/ g_actions[j] < -1}

\* C5: the result is 1 when the first action of magnitude above 1e-3 is a
\* closing one (below -1e-3) and 0 when it is an opening one (above 1e-3)
C5_InitialState ==
    RelOpenDone /\ Taken # {} =>
        g_out[1] = IF g_actions[MinOf(Taken)] < -1 THEN 1000 ELSE 0

(***************************************************************************)
(* Properties of get_dataset_statistics                                    *)
(***************************************************************************)
StatsReturned == s_pc = "returned"
\* the path the caller's arguments name: under save_dir if given, else local
ClaimedPath == cache_path(s_call.save_dir, s_call.hash_dependencies)
ClaimedLocal == local_path(s_call.hash_dependencies)

\* C2: a call without force_recompute that finds a cache file at the path its
\* arguments name returns the parsed content of that file, asks neither for
\* the cardinality nor for an iteration of the dataset, and writes no file
C2_CacheHit ==
    (StatsReturned /\ ~s_call.force_recompute /\ Exists(s_before, ClaimedPath)) =>
        /\ s_ret = Returned(JsonLoad(s_before[ClaimedPath]))
        /\ ~s_trace.cardinality_queried
        /\ ~s_trace.iterated
        /\ s_trace.writes = <<>>
        /\ s_files = s_before

\* a hit under save_dir while the local path holds other statistics
C2_Witness ==
    /\ StatsReturned /\ ~s_call.force_recompute
    /\ s_call.save_dir # None
    /\ Exists(s_before, ClaimedPath) /\ Exists(s_before, ClaimedLocal)
    /\ s_before[ClaimedPath] # s_before[ClaimedLocal]
    /\ s_ret = Returned(JsonLoad(s_before[ClaimedPath]))
    /\ s_dataset.cardinality = INFINITE_CARDINALITY

\* C6: when the write of the computed statistics under save_dir is denied,
\* the same statistics are written to the local path, whose directory exists
\* afterwards, and returned; if the local write fails its error is raised
C6_Fallback ==
    (/\ StatsReturned /\ s_call.save_dir # None
     /\ s_trace.writes # <<>>
     /\ s_trace.writes[1] = <<ClaimedPath, "PermissionDeniedError">>) =>
        LET metadata == Metadata(s_dataset, s_call.proprio_keys)
        IN  /\ Len(s_trace.writes) = 2
            /\ s_trace.writes[2][1] = ClaimedLocal
            /\ s_trace.writes[2][2] = "ok" =>
                    /\ s_ret = Returned(metadata)
                    /\ s_files[ClaimedLocal] = JsonDump(metadata)
                    /\ s_local = "writable"
            /\ s_trace.writes[2][2] # "ok" =>
                    /\ s_ret = Raised(s_trace.writes[2][2])
                    /\ s_files = s_before

\* the write under save_dir was denied and the statistics went to the local path
C6_Witness ==
    /\ StatsReturned /\ s_call.save_dir # None
    /\ s_trace.writes = <<<<ClaimedPath, "PermissionDeniedError">>, <<ClaimedLocal, "ok">>>>
    /\ s_ret.status = "ok"
    /\ s_files[ClaimedLocal] = JsonDump(s_ret.value[1])
    /\ s_files[ClaimedLocal] # s_before[ClaimedLocal]

\* C7: in a sequence of calls with the same hash_dependencies and save_dir,
\* a call without force_recompute that returns after a force_recompute call
\* has returned, returns the statistics of the most recent recompute
C7_LatestRecompute ==
    (/\ StatsReturned /\ ~s_call.force_recompute /\ s_ret.status = "ok"
     /\ s_recompute # <<>>
     /\ s_uniform = {Arguments(s_call)}) =>
        s_ret = Returned(s_recompute[1].metadata)

\* every timestep of every trajectory of the dataset, once, in iteration order
RECURSIVE AllTimesteps(_, _, _)
AllTimesteps(trajs, k, n) ==
    IF n = 0 THEN <<>>
    ELSE AllTimesteps(trajs, k, n - 1) \o
         (IF k = "action" THEN trajs[n].action ELSE trajs[n].observation[k])

\* C8: on a miss the samples aggregated for the action field and for every
\* proprio key are the timesteps of the trajectories, each once; their number
\* is num_transitions, and num_trajectories is the number of trajectories
C8_EachTimestepOnce ==
    (StatsReturned /\ s_trace.iterated /\ s_ret.status = "ok") =>
        /\ \A k \in {"action"} \cup KeySet(s_call.proprio_keys) :
              /\ s_trace.samples[k] = AllTimesteps(s_dataset.trajs, k, Len(s_dataset.trajs))
              /\ Len(s_trace.samples[k]) = s_ret.value[1]["num_transitions"]
        /\ s_ret.value[1]["num_trajectories"] = Len(s_dataset.trajs)

Init == InitAlloc \/ InitGripper \/ InitStats

Next == NextAlloc \/ NextGripper \/ NextStats

Spec == Init /\ [][Next]_vars
====
